---- MODULE Spec2Model ----
(***************************************************************************)
(* Xia fatigue dynamics of bioptim (bioptim/dynamics/fatigue/xia_fatigue.py)*)
(*                                                                         *)
(* XiaFatigue is the three-compartment model (ma, mr, mf) of one fatigable *)
(* actuator; XiaTauFatigue composes two of them ("minus", "plus") for a    *)
(* joint torque.  The numbers of the code are casadi expressions over the  *)
(* reals; they are modelled by exact rationals <<n, d>> in lowest terms    *)
(* with d > 0, so that a division by the scale, a product by a rate and a  *)
(* comparison are computed, not assumed.  Floating-point rounding is not   *)
(* modelled.                                                               *)
(***************************************************************************)
EXTENDS Integers, Sequences, FiniteSets, TLC

VARIABLES
    models,        \* XiaTauFatigue.models: key -> XiaFatigue (LD, LR, F, R, scale)
    state_only,    \* XiaTauFatigue state_only flag given to the constructor
    muscle,        \* a stand-alone XiaFatigue (LD, LR, F, R, scale)
    nlp_controls,  \* the names of the channels of nlp.controls
    controls,      \* the control vector of the node: row -> value
    states,        \* the state vector of the node: row -> value
    dxdt,          \* the combined derivative vector: row -> value
    pc,            \* position of each _dynamics_per_suffix evaluation
    local,         \* locals of each _dynamics_per_suffix evaluation
    writes,        \* log of the rows of dxdt each evaluation has assigned
    call,          \* the last completed call of an atomic method and its outcome
    x,             \* (ma, mr, mf) carried by an explicit integration
    nsteps         \* number of integration steps taken

vars == <<models, state_only, muscle, nlp_controls, controls, states, dxdt,
          pc, local, writes, call, x, nsteps>>

-----------------------------------------------------------------------------
(* Bounds of the model *)

\* rates LD, LR, F, R are drawn from 1..MaxRate
MaxRate == 2
\* scales are drawn from the non-zero integers of -MaxScale..MaxScale
MaxScale == 2
\* actuator indices are 0..NbIndex-1
NbIndex == 1
\* integration steps taken from the default initial guess
MaxSteps == 2

-----------------------------------------------------------------------------
(* Exact arithmetic of the expressions *)

RECURSIVE GCD(_, _)
GCD(a, b) == IF b = 0 THEN a ELSE GCD(b, a % b)

Abs(a) == IF a < 0 THEN -a ELSE a

\* n/d in lowest terms, d > 0 (d # 0 required)
Rat(n, d) ==
    LET s == IF d < 0 THEN -1 ELSE 1
        g == GCD(Abs(n), Abs(d))
    IN  <<(s * n) \div g, (s * d) \div g>>

Num(n) == <<n, 1>>

RAdd(a, b) == Rat(a[1] * b[2] + b[1] * a[2], a[2] * b[2])
RNeg(a) == <<-a[1], a[2]>>
RSub(a, b) == RAdd(a, RNeg(b))
RMul(a, b) == Rat(a[1] * b[1], a[2] * b[2])
\* a / b, b # 0
RDiv(a, b) == Rat(a[1] * b[2], a[2] * b[1])
\* casadi lt / gt
lt(a, b) == a[1] * b[2] < b[1] * a[2]
gt(a, b) == lt(b, a)
RLe(a, b) == ~lt(b, a)

\* casadi if_else(cond, a, b)
if_else(cond, a, b) == IF cond THEN a ELSE b

\* casadi vertcat of three scalars
vertcat(a, b, c) == <<a, b, c>>

RSum3(v) == RAdd(RAdd(v[1], v[2]), v[3])

-----------------------------------------------------------------------------
(* Outcomes that are not values *)

NotImplementedError == "NotImplementedError"
TypeError == "TypeError"
KeyError == "KeyError"
NoError == "none"

\* VariableType members used here, and the absence of the argument
STATES == "STATES"
CONTROLS == "CONTROLS"
NoArg == "<no argument>"

-----------------------------------------------------------------------------
(* XiaFatigue *)

\* XiaFatigue.__init__
XiaFatigue(LD, LR, F, R, scale) ==
    [LD |-> LD, LR |-> LR, F |-> F, R |-> R, scale |-> scale]

\* XiaFatigue.suffix(variable_type); the parameter has no default value
XiaSuffix(variable_type) ==
    IF variable_type = NoArg THEN [err |-> TypeError, val |-> <<>>]
    ELSE IF variable_type = STATES THEN [err |-> NoError, val |-> <<"ma", "mr", "mf">>]
    ELSE [err |-> NoError, val |-> <<"">>]

\* XiaFatigue.default_initial_guess
XiaDefaultInitialGuess(self) == <<Num(0), Num(1), Num(0)>>

\* XiaFatigue.default_bounds
XiaDefaultBounds(self, variable_type) ==
    << <<Num(0), Num(0), Num(0)>>, <<Num(1), Num(1), Num(1)>> >>

\* XiaC with the test on the rest supply inverted
XiaC_CapInverted(self, target_load, ma, mr) ==
    if_else(lt(ma, target_load),
            if_else(lt(mr, RSub(target_load, ma)),
                    RMul(self.LD, RSub(target_load, ma)),
                    RMul(self.LD, mr)),
            RMul(self.LR, RSub(target_load, ma)))

\* XiaC relaxing at the development rate
XiaC_RelaxAtLD(self, target_load, ma, mr) ==
    if_else(lt(ma, target_load),
            if_else(gt(mr, RSub(target_load, ma)),
                    RMul(self.LD, RSub(target_load, ma)),
                    RMul(self.LD, mr)),
            RMul(self.LD, RSub(target_load, ma)))

\* the transfer rate c of apply_dynamics
XiaC(self, target_load, ma, mr) ==
    if_else(lt(ma, target_load),
            if_else(gt(mr, RSub(target_load, ma)),
                    RMul(self.LD, RSub(target_load, ma)),
                    RMul(self.LD, mr)),
            RMul(self.LR, RSub(target_load, ma)))

\* apply_dynamics without the recovery term of mr_dot
ApplyDynamics_NoRecovery(self, target_load, st) ==
    LET c == XiaC(self, target_load, st[1], st[2])
    IN  vertcat(RSub(c, RMul(self.F, st[1])),
                RNeg(c),
                RSub(RMul(self.F, st[1]), RMul(self.R, st[3])))

\* apply_dynamics whose ma_dot loses fibers at the rate R
ApplyDynamics_WrongRate(self, target_load, st) ==
    LET c == XiaC(self, target_load, st[1], st[2])
    IN  vertcat(RSub(c, RMul(self.R, st[1])),
                RAdd(RNeg(c), RMul(self.R, st[3])),
                RSub(RMul(self.F, st[1]), RMul(self.R, st[3])))

\* XiaFatigue.apply_dynamics(target_load, ma, mr, mf)
ApplyDynamics(self, target_load, st) ==
    LET ma == st[1]
        mr == st[2]
        mf == st[3]
        c == XiaC(self, target_load, ma, mr)
        ma_dot == RSub(c, RMul(self.F, ma))
        mr_dot == RAdd(RNeg(c), RMul(self.R, mf))
        mf_dot == RSub(RMul(self.F, ma), RMul(self.R, mf))
    IN  vertcat(ma_dot, mr_dot, mf_dot)

-----------------------------------------------------------------------------
(* The containers of the engine (nlp.states, nlp.controls, the vectors)   *)

Indices == 0 .. (NbIndex - 1)

\* names of the state variables: f"muscles_{s}", f"tau_{suffix}_{dyn_suffix}"
MuscleName(s) == <<"muscles", s>>
TauName(suffix, dyn_suffix) == <<"tau", suffix, dyn_suffix>>

StateNames ==
    << MuscleName("ma"), MuscleName("mr"), MuscleName("mf"),
       TauName("minus", "ma"), TauName("minus", "mr"), TauName("minus", "mf"),
       TauName("plus", "ma"), TauName("plus", "mr"), TauName("plus", "mf") >>

\* names of the control channels: "muscles", "tau", f"tau_{suffix}"
ControlNames == << <<"muscles">>, <<"tau", "minus">>, <<"tau", "plus">>, <<"tau">> >>

NamePos(seq, name) == CHOOSE p \in 1 .. Len(seq) : seq[p] = name

\* nlp.states[name].index: the rows of the variable, one per actuator index
StateIndex(name) ==
    [k \in 1 .. NbIndex |-> (NamePos(StateNames, name) - 1) * NbIndex + (k - 1)]

\* nlp.controls[name].index
ControlIndex(name) ==
    [k \in 1 .. NbIndex |-> (NamePos(ControlNames, name) - 1) * NbIndex + (k - 1)]

StateRows == 0 .. (Len(StateNames) * NbIndex - 1)
ControlRows == 0 .. (Len(ControlNames) * NbIndex - 1)

\* DynamicsFunctions.get(var, vector): the rows of the variable in the vector
Get(rows, vector) == [k \in DOMAIN rows |-> vector[rows[k]]]

\* nlp.controls[name]; a name the container does not hold is a lookup failure
NlpControls(present, name) ==
    IF name \in present THEN [err |-> NoError, index |-> ControlIndex(name)]
    ELSE [err |-> KeyError, index |-> <<>>]

-----------------------------------------------------------------------------
(* XiaFatigue.dynamics *)

None == "None"

\* XiaFatigue._get_target_load(nlp, controls, index)
XiaGetTargetLoad(self, present, ctrl, index) ==
    IF <<"muscles">> \notin present
    THEN [err |-> NotImplementedError, val |-> None]
    ELSE [err |-> NoError,
          val |-> Get(NlpControls(present, <<"muscles">>).index, ctrl)[index + 1]]

\* the assignments of the loop over enumerate(suffix): row by row into dxdt
RECURSIVE WriteLoop(_, _, _, _)
WriteLoop(d, names, values, index) ==
    IF names = <<>> THEN d
    ELSE WriteLoop([d EXCEPT ![StateIndex(Head(names))[index + 1]] = Head(values)],
                   Tail(names), Tail(values), index)

\* XiaFatigue.dynamics(dxdt, nlp, index, states, controls)
XiaDynamics(self, d, present, index, st, ctrl) ==
    LET tl == XiaGetTargetLoad(self, present, ctrl, index)
    IN  IF tl.err # NoError
        THEN [err |-> tl.err, dxdt |-> d, target_load |-> None, current_dxdt |-> None]
        ELSE
        LET fatigue == [k \in 1 .. 3 |->
                          Get(StateIndex(MuscleName(XiaSuffix(STATES).val[k])), st)[index + 1]]
            current_dxdt == ApplyDynamics(self, tl.val, fatigue)
            sfx == XiaSuffix(NoArg)
        IN  IF sfx.err # NoError
            THEN [err |-> sfx.err, dxdt |-> d,
                  target_load |-> tl.val, current_dxdt |-> current_dxdt]
            ELSE [err |-> NoError,
                  dxdt |-> WriteLoop(d, [k \in 1 .. Len(sfx.val) |-> MuscleName(sfx.val[k])],
                                     current_dxdt, index),
                  target_load |-> tl.val, current_dxdt |-> current_dxdt]

-----------------------------------------------------------------------------
(* XiaTauFatigue *)

\* XiaTauFatigue.suffix
TauSuffix == <<"minus", "plus">>

Keys == {TauSuffix[k] : k \in 1 .. Len(TauSuffix)}

\* MultiFatigueModel._convert_to_models_key(index)
IndexOutOfRange == "IndexOutOfRange"
ConvertToModelsKey(index) ==
    IF index \in 0 .. (Len(TauSuffix) - 1) THEN TauSuffix[index + 1] ELSE IndexOutOfRange

\* _get_target_load without the test on "tau"
TauGetTargetLoad_NoTest(var, suffix, present, ctrl, index) ==
    LET rows == NlpControls(present, <<"tau", suffix>>)
    IN  IF rows.err # NoError
        THEN [err |-> rows.err, val |-> None]
        ELSE [err |-> NoError,
              val |-> RDiv(Get(rows.index, ctrl)[index + 1], var.scale)]

\* XiaTauFatigue._get_target_load(var, suffix, nlp, controls, index)
TauGetTargetLoad(var, suffix, present, ctrl, index) ==
    IF <<"tau">> \notin present
    THEN [err |-> NotImplementedError, val |-> None]
    ELSE LET rows == NlpControls(present, <<"tau", suffix>>)
         IN  IF rows.err # NoError
             THEN [err |-> rows.err, val |-> None]
             ELSE [err |-> NoError,
                   val |-> RDiv(Get(rows.index, ctrl)[index + 1], var.scale)]

\* default_bounds with the two ends of the control box exchanged
TauDefaultBounds_EndsSwapped(ms, index, variable_type) ==
    LET key == ConvertToModelsKey(index)
    IN  IF key = IndexOutOfRange THEN IndexOutOfRange
        ELSE IF variable_type = STATES
        THEN XiaDefaultBounds(ms[key], variable_type)
        ELSE LET scale == ms[key].scale
             IN  << <<IF index = 1 THEN scale ELSE Num(0)>>,
                    <<IF index = 0 THEN scale ELSE Num(0)>> >>

\* default_bounds answering the control box for every variable type
TauDefaultBounds_AlwaysControls(ms, index, variable_type) ==
    LET key == ConvertToModelsKey(index)
    IN  IF key = IndexOutOfRange THEN IndexOutOfRange
        ELSE LET scale == ms[key].scale
             IN  << <<IF index = 0 THEN scale ELSE Num(0)>>,
                    <<IF index = 1 THEN scale ELSE Num(0)>> >>

\* XiaTauFatigue.default_bounds(index, variable_type)
TauDefaultBounds(ms, index, variable_type) ==
    LET key == ConvertToModelsKey(index)
    IN  IF key = IndexOutOfRange THEN IndexOutOfRange
        ELSE IF variable_type = STATES
        THEN XiaDefaultBounds(ms[key], variable_type)
        ELSE LET scale == ms[key].scale
             IN  << <<IF index = 0 THEN scale ELSE Num(0)>>,
                    <<IF index = 1 THEN scale ELSE Num(0)>> >>

\* XiaTauFatigue.default_initial_guess(index, variable_type)
TauDefaultInitialGuess(ms, index, variable_type) ==
    LET key == ConvertToModelsKey(index)
    IN  IF key = IndexOutOfRange THEN IndexOutOfRange
        ELSE XiaDefaultInitialGuess(ms[key])

\* XiaTauFatigue._dynamics_per_suffix, up to current_dxdt
TauCompute(ms, suffix, present, index, st, ctrl) ==
    LET var == ms[suffix]
        tl == TauGetTargetLoad(var, suffix, present, ctrl, index)
    IN  IF tl.err # NoError
        THEN [err |-> tl.err, target_load |-> None, current_dxdt |-> None]
        ELSE
        LET sfx == XiaSuffix(STATES).val
            fatigue == [k \in 1 .. Len(sfx) |->
                          Get(StateIndex(TauName(suffix, sfx[k])), st)[index + 1]]
        IN  [err |-> NoError, target_load |-> tl.val,
             current_dxdt |-> ApplyDynamics(var, tl.val, fatigue)]

\* the row of the loop taken from the "minus" variables whatever the suffix
TauWriteRow_KeyIgnored(suffix, index, i) ==
    StateIndex(TauName("minus", XiaSuffix(STATES).val[i + 1]))[index + 1]

\* XiaTauFatigue._dynamics_per_suffix: the row assigned at iteration i of the loop
TauWriteRow(suffix, index, i) ==
    StateIndex(TauName(suffix, XiaSuffix(STATES).val[i + 1]))[index + 1]

-----------------------------------------------------------------------------
(* Inputs *)

Scales == {s \in (-MaxScale) .. MaxScale : s # 0}
RateSet == {Num(1), Num(MaxRate)}

\* every XiaFatigue over the rates, scale 1 (the default of the constructor)
XiaModels ==
    {XiaFatigue(LD, LR, F, R, Num(1)) : LD \in RateSet, LR \in RateSet,
                                        F \in RateSet, R \in RateSet}

\* the sub-model of a composite, of a given scale
SubModel(s) == XiaFatigue(Num(MaxRate), Num(1), Num(1), Num(MaxRate), Num(s))

Fractions == {Num(0), Rat(1, 10), Rat(1, 2), Num(1)}
RestFractions == {Num(0), Rat(1, 2), Rat(9, 10), Num(1)}
FatiguedFractions == {Num(0), Rat(1, 2)}
LoadValues == {Rat(-1, 2), Rat(3, 10), Rat(1, 2), Num(1), Rat(3, 2)}
StepSizes == {Num(-1), Rat(1, 2), Num(2)}

\* the state vector of a node: every actuator holds fractions that sum to 1
NodeStates ==
    [r \in StateRows |->
        LET g == (r \div NbIndex) \div 3
            k == (r \div NbIndex) % 3
            i == r % NbIndex
            ma == Rat(1 + 3 * g, 10)
            mf == Rat(i, 10)
        IN  IF k = 0 THEN ma
            ELSE IF k = 2 THEN mf
            ELSE RSub(RSub(Num(1), ma), mf)]

ControlValues == {Num(1), Num(MaxScale), Rat(-1, 2)}

Evals == Keys \X Indices

NoCall ==
    [op |-> None, index |-> None, variable_type |-> None, err |-> NoError,
     target_load |-> None, st |-> None, c |-> None, ret |-> None]

NoLocal == [err |-> NoError, target_load |-> None, current_dxdt |-> None, i |-> None]

\* the part of the state a specification does not exercise
Idle ==
    /\ dxdt = [r \in StateRows |-> Num(0)]
    /\ pc = [e \in Evals |-> "start"]
    /\ local = [e \in Evals |-> NoLocal]
    /\ writes = {}
    /\ call = NoCall
    /\ x = XiaDefaultInitialGuess(muscle)
    /\ nsteps = 0

-----------------------------------------------------------------------------
(* Spec: the engine evaluates the dynamics of one node *)

Init ==
    /\ muscle \in {XiaFatigue(Num(MaxRate), Num(1), Num(1), Num(MaxRate), Num(s)) :
                     s \in {1, MaxScale}}
    /\ models \in {[k \in Keys |-> SubModel(IF k = "minus" THEN -s ELSE s)] :
                     s \in {MaxScale}}
    /\ state_only \in {TRUE}
    /\ nlp_controls \in SUBSET {ControlNames[k] : k \in 1 .. Len(ControlNames)}
    /\ controls \in {[r \in ControlRows |-> v] : v \in ControlValues}
    /\ states = NodeStates
    /\ Idle

\* the engine calls XiaFatigue.dynamics for the muscle of a given index
Dynamics(index) ==
    LET r == XiaDynamics(muscle, dxdt, nlp_controls, index, states, controls)
    IN  /\ dxdt' = r.dxdt
        /\ call' = [NoCall EXCEPT !.op = "dynamics", !.index = index, !.err = r.err,
                                  !.target_load = r.target_load,
                                  !.ret = IF r.err = NoError THEN r.dxdt ELSE None]
        /\ UNCHANGED <<models, state_only, muscle, nlp_controls, controls, states,
                       pc, local, writes, x, nsteps>>

\* _dynamics_per_suffix(dxdt, suffix, nlp, index, ...) up to the loop
TauStart(e) ==
    /\ pc[e] = "start"
    /\ LET r == TauCompute(models, e[1], nlp_controls, e[2], states, controls)
       IN  /\ local' = [local EXCEPT ![e] =
                          [err |-> r.err, target_load |-> r.target_load,
                           current_dxdt |-> r.current_dxdt,
                           i |-> IF r.err = NoError THEN 0 ELSE None]]
           /\ pc' = [pc EXCEPT ![e] = IF r.err = NoError THEN "loop" ELSE "raised"]
    /\ UNCHANGED <<models, state_only, muscle, nlp_controls, controls, states,
                   dxdt, writes, call, x, nsteps>>

\* one iteration of the loop of _dynamics_per_suffix; the last one returns dxdt
TauWrite(e) ==
    /\ pc[e] = "loop"
    /\ LET i == local[e].i
           row == TauWriteRow(e[1], e[2], i)
       IN  /\ dxdt' = [dxdt EXCEPT ![row] = local[e].current_dxdt[i + 1]]
           /\ writes' = writes \cup {<<e, row>>}
           /\ local' = [local EXCEPT ![e].i = i + 1]
           /\ pc' = [pc EXCEPT ![e] =
                       IF i + 1 = Len(XiaSuffix(STATES).val) THEN "returned" ELSE "loop"]
    /\ UNCHANGED <<models, state_only, muscle, nlp_controls, controls, states,
                   call, x, nsteps>>

Next ==
    \/ \E index \in Indices : Dynamics(index)
    \/ \E e \in Evals : TauStart(e)
    \/ \E e \in Evals : TauWrite(e)

Spec == Init /\ [][Next]_vars

-----------------------------------------------------------------------------
(* SpecPure: one call of a pure method on drawn inputs; call holds its     *)
(* arguments and its outcome                                               *)

ScalePairs == {<<a, -a>> : a \in Scales} \cup {<<a, a>> : a \in Scales}

InitPure ==
    /\ muscle \in XiaModels
    /\ models \in {[k \in Keys |-> SubModel(IF k = "minus" THEN p[1] ELSE p[2])] :
                     p \in ScalePairs}
    /\ state_only \in BOOLEAN
    /\ nlp_controls = {}
    /\ controls = [r \in ControlRows |-> Num(0)]
    /\ states = NodeStates
    /\ Idle

\* muscle.apply_dynamics(target_load, ma, mr, mf)
CallApplyDynamics(target_load, ma, mr, mf) ==
    /\ call = NoCall
    /\ call' = [NoCall EXCEPT !.op = "apply_dynamics", !.target_load = target_load,
                              !.st = <<ma, mr, mf>>,
                              !.c = XiaC(muscle, target_load, ma, mr),
                              !.ret = ApplyDynamics(muscle, target_load, <<ma, mr, mf>>)]
    /\ UNCHANGED <<models, state_only, muscle, nlp_controls, controls, states,
                   dxdt, pc, local, writes, x, nsteps>>

\* XiaTauFatigue.default_bounds(index, variable_type)
CallDefaultBounds(index, variable_type) ==
    /\ call = NoCall
    /\ LET r == TauDefaultBounds(models, index, variable_type)
       IN  call' = [NoCall EXCEPT !.op = "default_bounds", !.index = index,
                                  !.variable_type = variable_type,
                                  !.err = IF r = IndexOutOfRange THEN r ELSE NoError,
                                  !.ret = r]
    /\ UNCHANGED <<models, state_only, muscle, nlp_controls, controls, states,
                   dxdt, pc, local, writes, x, nsteps>>

\* XiaTauFatigue.default_initial_guess(index, variable_type)
CallDefaultInitialGuess(index, variable_type) ==
    /\ call = NoCall
    /\ LET r == TauDefaultInitialGuess(models, index, variable_type)
       IN  call' = [NoCall EXCEPT !.op = "default_initial_guess", !.index = index,
                                  !.variable_type = variable_type,
                                  !.err = IF r = IndexOutOfRange THEN r ELSE NoError,
                                  !.ret = r]
    /\ UNCHANGED <<models, state_only, muscle, nlp_controls, controls, states,
                   dxdt, pc, local, writes, x, nsteps>>

VariableTypes == {STATES, CONTROLS}

NextPure ==
    \/ \E target_load \in LoadValues, ma \in Fractions, mr \in RestFractions,
          mf \in FatiguedFractions : CallApplyDynamics(target_load, ma, mr, mf)
    \/ \E index \in 0 .. Len(TauSuffix), vt \in VariableTypes :
          CallDefaultBounds(index, vt)
    \/ \E index \in 0 .. Len(TauSuffix), vt \in VariableTypes :
          CallDefaultInitialGuess(index, vt)

SpecPure == InitPure /\ [][NextPure]_vars

-----------------------------------------------------------------------------
(* SpecEuler: explicit integration from the default initial guess *)

InitEuler ==
    /\ muscle \in XiaModels
    /\ models = [k \in Keys |-> SubModel(1)]
    /\ state_only = TRUE
    /\ nlp_controls = {}
    /\ controls = [r \in ControlRows |-> Num(0)]
    /\ states = NodeStates
    /\ Idle

\* x := x + h * apply_dynamics(target_load, x)
EulerUpdate(self, h, target_load, st) ==
    LET d == ApplyDynamics(self, target_load, st)
    IN  [k \in 1 .. 3 |-> RAdd(st[k], RMul(h, d[k]))]

Step(h, target_load) ==
    /\ nsteps < MaxSteps
    /\ x' = EulerUpdate(muscle, h, target_load, x)
    /\ nsteps' = nsteps + 1
    /\ UNCHANGED <<models, state_only, muscle, nlp_controls, controls, states,
                   dxdt, pc, local, writes, call>>

NextEuler == \E h \in StepSizes, target_load \in LoadValues : Step(h, target_load)

SpecEuler == InitEuler /\ [][NextEuler]_vars

-----------------------------------------------------------------------------
(* Properties of apply_dynamics (SpecPure) *)

Applied == call.op = "apply_dynamics"

UnitModel == XiaFatigue(Num(1), Num(1), Num(1), Num(1), Num(1))

\* the regime of a call of apply_dynamics
Under == Applied /\ lt(call.st[1], call.target_load)
Supplied == Under /\ gt(call.st[2], RSub(call.target_load, call.st[1]))
Capped == Under /\ ~gt(call.st[2], RSub(call.target_load, call.st[1]))
Relaxing == Applied /\ ~lt(call.st[1], call.target_load)

\* C1: whatever the parameters (LD, LR, F, R) and the input (target_load, ma,
\* mr, mf), in each of the three regimes, the three derivatives returned by
\* apply_dynamics sum to exactly zero.
C1_Conservation ==
    /\ Supplied => RSum3(call.ret) = Num(0)
    /\ Capped => RSum3(call.ret) = Num(0)
    /\ Relaxing => RSum3(call.ret) = Num(0)

\* C1 witness: a call in the capped regime, with fatigued fibers recovering and
\* every derivative non-zero
C1_Witness ==
    /\ Capped
    /\ call.st[3] # Num(0)
    /\ \A k \in 1 .. 3 : call.ret[k] # Num(0)

\* the transfer rate as the three cases of the law
LawC(self, TL, ma, mr) ==
    CASE lt(ma, TL) /\ gt(mr, RSub(TL, ma)) -> RMul(self.LD, RSub(TL, ma))
      [] lt(ma, TL) /\ RLe(mr, RSub(TL, ma)) -> RMul(self.LD, mr)
      [] RLe(TL, ma) -> RMul(self.LR, RSub(TL, ma))

\* C2: apply_dynamics returns (c - F*ma, -c + R*mf, F*ma - R*mf) with
\* c = LD*(TL-ma) if ma < TL and mr > TL-ma, c = LD*mr if ma < TL and
\* mr <= TL-ma, c = LR*(TL-ma) if ma >= TL; with LD=LR=F=R=1, state
\* (0.5, 0.5, 0) and TL=0.3 give (-0.7, 0.2, 0.5), and state (0.1, 0.9, 0) and
\* TL=0.5 give (0.3, -0.4, 0.1).
C2_SwitchedLaw ==
    /\ Applied =>
          LET c == LawC(muscle, call.target_load, call.st[1], call.st[2])
          IN  call.ret = << RSub(c, RMul(muscle.F, call.st[1])),
                            RAdd(RNeg(c), RMul(muscle.R, call.st[3])),
                            RSub(RMul(muscle.F, call.st[1]), RMul(muscle.R, call.st[3])) >>
    /\ ApplyDynamics(UnitModel, Rat(3, 10), <<Rat(1, 2), Rat(1, 2), Num(0)>>)
          = <<Rat(-7, 10), Rat(2, 10), Rat(5, 10)>>
    /\ ApplyDynamics(UnitModel, Rat(5, 10), <<Rat(1, 10), Rat(9, 10), Num(0)>>)
          = <<Rat(3, 10), Rat(-4, 10), Rat(1, 10)>>

\* C2 witness: the second scenario has been evaluated
C2_Witness ==
    /\ Applied
    /\ muscle = UnitModel
    /\ call.target_load = Rat(1, 2)
    /\ call.st = <<Rat(1, 10), Rat(9, 10), Num(0)>>
    /\ call.ret = <<Rat(3, 10), Rat(-2, 5), Rat(1, 10)>>

\* C3: whenever ma >= TL, equality included, the transfer rate is
\* c = LR*(TL-ma) and ma_dot = LR*(TL-ma) - F*ma, an expression of TL and ma
\* alone, whatever mr and mf.
C3_RelaxationBranch ==
    (Applied /\ RLe(call.target_load, call.st[1])) =>
        /\ call.c = RMul(muscle.LR, RSub(call.target_load, call.st[1]))
        /\ call.ret[1] = RSub(RMul(muscle.LR, RSub(call.target_load, call.st[1])),
                              RMul(muscle.F, call.st[1]))

\* C3 witness: the equality case ma = TL, evaluated with a rest supply and a
\* fatigued fraction that are not zero and rates LD # LR
C3_Witness ==
    /\ Applied
    /\ call.st[1] = call.target_load
    /\ call.st[2] # Num(0)
    /\ call.st[3] # Num(0)
    /\ muscle.LD # muscle.LR
    /\ call.ret[1] = RNeg(RMul(muscle.F, call.st[1]))

-----------------------------------------------------------------------------
(* Properties of the composite's bounds and initial guess (SpecPure) *)

BoundsOf(index, variable_type) ==
    /\ call.op = "default_bounds"
    /\ call.index = index
    /\ call.variable_type = variable_type

\* the lower end and the upper end of a box of one control
Lower(box) == box[1][1]
Upper(box) == box[2][1]

\* C7 as stated: for a composite built with state_only false and a control
\* variable type, default_bounds(0, ...) is [-scale, 0] and default_bounds(1, ...)
\* is [0, scale], scale being the scale of the sub-model at that index, and
\* lower <= upper for every positive scale.
C7_AsStated ==
    \A index \in {0, 1} :
        (~state_only /\ BoundsOf(index, CONTROLS)) =>
            LET scale == models[TauSuffix[index + 1]].scale
            IN  /\ index = 0 => call.ret = << <<RNeg(scale)>>, <<Num(0)>> >>
                /\ index = 1 => call.ret = << <<Num(0)>>, <<scale>> >>
                /\ gt(scale, Num(0)) => RLe(Lower(call.ret), Upper(call.ret))

\* C7 amended: for a composite built with state_only false and a control
\* variable type, default_bounds(0, ...) is [scale, 0] and default_bounds(1, ...)
\* is [0, scale], scale being the scale of the sub-model at that index; the
\* other end is pinned to 0, and lower <= upper exactly when the scale of
\* index 0 is <= 0, respectively the scale of index 1 is >= 0.
C7_SignedScaleBox ==
    \A index \in {0, 1} :
        (~state_only /\ BoundsOf(index, CONTROLS)) =>
            LET scale == models[TauSuffix[index + 1]].scale
            IN  /\ index = 0 => call.ret = << <<scale>>, <<Num(0)>> >>
                /\ index = 1 => call.ret = << <<Num(0)>>, <<scale>> >>
                /\ RLe(Lower(call.ret), Upper(call.ret))
                     <=> IF index = 0 THEN RLe(scale, Num(0)) ELSE RLe(Num(0), scale)

\* C7 witness: the control box of index 0 asked of a composite, state_only
\* false, whose "minus" scale is positive and differs from its "plus" scale:
\* the box is [scale, 0], lower above upper
C7_Witness ==
    /\ ~state_only
    /\ BoundsOf(0, CONTROLS)
    /\ gt(models["minus"].scale, Num(0))
    /\ models["minus"].scale # models["plus"].scale
    /\ call.ret = << <<models["minus"].scale>>, <<Num(0)>> >>

\* C8: for every configured index k and the state variable type,
\* default_bounds(k, STATES) is the default_bounds of the sub-model at position
\* k, lower (0, 0, 0) and upper (1, 1, 1); default_initial_guess(k, ...) is that
\* sub-model's default_initial_guess (0, 1, 0), which lies inside those bounds.
C8_Delegation ==
    \A k \in 0 .. (Len(TauSuffix) - 1) :
        LET sub == models[TauSuffix[k + 1]]
        IN  /\ BoundsOf(k, STATES) =>
                /\ call.ret = XiaDefaultBounds(sub, STATES)
                /\ call.ret =
                     << <<Num(0), Num(0), Num(0)>>, <<Num(1), Num(1), Num(1)>> >>
            /\ (call.op = "default_initial_guess" /\ call.index = k) =>
                /\ call.ret = XiaDefaultInitialGuess(sub)
                /\ call.ret = <<Num(0), Num(1), Num(0)>>
                /\ LET box == TauDefaultBounds(models, k, STATES)
                   IN  \A j \in 1 .. 3 : /\ RLe(box[1][j], call.ret[j])
                                         /\ RLe(call.ret[j], box[2][j])

\* C8 witness: the state bounds of the last configured index have been asked
C8_Witness ==
    /\ BoundsOf(Len(TauSuffix) - 1, STATES)
    /\ call.err = NoError
    /\ Len(call.ret[1]) = Len(XiaSuffix(STATES).val)

-----------------------------------------------------------------------------
(* Property of the integration (SpecEuler) *)

\* C9: from the default initial guess (0, 1, 0), whose components sum to 1,
\* after any finite sequence of steps x := x + h * apply_dynamics(TL, x), with
\* any h and any TL at each step (TL outside [0, 1] included), ma + mr + mf = 1.
C9_SumPreserved == RSum3(x) = Num(1)

\* C9 witness: MaxSteps steps have been taken, the last state has left the
\* default initial guess and the box [0, 1]
C9_Witness ==
    /\ nsteps = MaxSteps
    /\ x # XiaDefaultInitialGuess(muscle)
    /\ \E k \in 1 .. 3 : lt(x[k], Num(0)) \/ gt(x[k], Num(1))

-----------------------------------------------------------------------------
(* Properties of the evaluations of the dynamics (Spec) *)

\* the raw control value an evaluation reads
RawMuscle(index) == controls[ControlIndex(<<"muscles">>)[index + 1]]
RawTau(e) == controls[ControlIndex(<<"tau", e[1]>>)[e[2] + 1]]

\* an evaluation that has computed its target load
DynamicsHasLoad == call.op = "dynamics" /\ call.err \in {NoError, TypeError}
TauHasLoad(e) == pc[e] \in {"loop", "returned"}

\* the rows of dxdt of an actuator
MuscleRows(index) ==
    {StateIndex(MuscleName(XiaSuffix(STATES).val[k]))[index + 1] : k \in 1 .. 3}
TauRows(e) ==
    {StateIndex(TauName(e[1], XiaSuffix(STATES).val[k]))[e[2] + 1] : k \in 1 .. 3}

\* the rows of dxdt an evaluation has assigned so far
Written(e) == {r \in StateRows : <<e, r>> \in writes}

\* C4: in every evaluation path (XiaFatigue.dynamics, and _dynamics_per_suffix
\* for each key), the target load given to apply_dynamics is the raw control
\* value at the index divided by the scale of the model, so a raw control value
\* equal to the scale yields a target load of 1.
C4_TargetLoadIsRawOverScale ==
    /\ DynamicsHasLoad =>
          /\ call.target_load = RDiv(RawMuscle(call.index), muscle.scale)
          /\ RawMuscle(call.index) = muscle.scale => call.target_load = Num(1)
    /\ \A e \in Evals : TauHasLoad(e) =>
          /\ local[e].target_load = RDiv(RawTau(e), models[e[1]].scale)
          /\ RawTau(e) = models[e[1]].scale => local[e].target_load = Num(1)

\* C5: when the control set holds "muscles", XiaFatigue.dynamics completes
\* without error and returns dxdt whose rows muscles_ma, muscles_mr, muscles_mf
\* at the index hold ma_dot, mr_dot, mf_dot computed by apply_dynamics from the
\* values read at that index.
C5_DynamicsWritesDerivatives ==
    (call.op = "dynamics" /\ <<"muscles">> \in nlp_controls) =>
        /\ call.err = NoError
        /\ LET index == call.index
               fatigue == [k \in 1 .. 3 |->
                             states[StateIndex(MuscleName(XiaSuffix(STATES).val[k]))[index + 1]]]
               d == ApplyDynamics(muscle, call.target_load, fatigue)
           IN  \A k \in 1 .. 3 :
                 dxdt[StateIndex(MuscleName(XiaSuffix(STATES).val[k]))[index + 1]] = d[k]

\* an evaluation that raised, and which error
TauRaised(e, err) == pc[e] = "raised" /\ local[e].err = err

TauExpected(e, r) ==
    LET sfx == XiaSuffix(STATES).val
        k == CHOOSE j \in 1 .. 3 : StateIndex(TauName(e[1], sfx[j]))[e[2] + 1] = r
        fatigue == [j \in 1 .. 3 |-> states[StateIndex(TauName(e[1], sfx[j]))[e[2] + 1]]]
        d == ApplyDynamics(models[e[1]], RDiv(RawTau(e), models[e[1]].scale), fatigue)
        done == pc[e] = "returned" \/ (pc[e] = "loop" /\ local[e].i >= k)
    IN  IF done THEN d[k] ELSE Num(0)

\* every row of dxdt holds what the evaluation of its own actuator has
\* assigned to it, whatever the other evaluations have done
RowsAreOwn ==
    /\ \A e \in Evals : \A r \in TauRows(e) : dxdt[r] = TauExpected(e, r)
    /\ \A r \in StateRows \ UNION {TauRows(e) : e \in Evals} : dxdt[r] = Num(0)
    /\ \A e \in Evals :
          /\ Written(e) \subseteq TauRows(e)
          /\ pc[e] = "returned" => Written(e) = TauRows(e) /\ Cardinality(Written(e)) = 3

\* C10: one call of _dynamics_per_suffix for key k and index i writes exactly
\* the three rows tau_<k>_ma, tau_<k>_mr, tau_<k>_mf at index i of dxdt, leaves
\* every other row unchanged and does not modify the parameters of the models;
\* hence, the rows of distinct (key, index) being disjoint, the evaluations of
\* "minus" and "plus" (or of distinct indices) produce the same final dxdt in
\* any order or interleaving.
C10_DisjointWrites ==
    /\ []RowsAreOwn
    /\ [][/\ models' = models
          /\ \A e \in Evals : (pc'[e] = pc[e] /\ local'[e] = local[e]) =>
                \A r \in TauRows(e) : dxdt'[r] = dxdt[r]]_vars

\* C10 witness: the evaluations of "minus" and "plus", of different scales,
\* have both returned, each with rows that differ from the initial ones
C10_Witness ==
    /\ \A e \in Evals : pc[e] = "returned"
    /\ \A e \in Evals : \E r \in TauRows(e) : dxdt[r] # Num(0)
    /\ models["minus"].scale # models["plus"].scale

====
